---- MODULE Spec2Model ----
(***************************************************************************)
(* Model of sanitize_cli (src/src/sanitize_cli/cli.py): the comment        *)
(* stripper remove_comments_with_pygments, the per-file rewriter           *)
(* process_file and the directory walk of main.                            *)
(*                                                                         *)
(* Text is a sequence of one-character strings.  A Pygments token is a     *)
(* record [ttype, tvalue]; a token type is the tuple of its name parts     *)
(* (Token.Comment.Preproc is <<"Comment", "Preproc">>), so that            *)
(* `ttype in Comment` is the prefix test Pygments implements.              *)
(***************************************************************************)
EXTENDS Integers, Sequences, FiniteSets, TLC

\* ------------------------------------------------------------------ bounds
\* Longest token stream drawn as an input of the stripper.
MaxTokens == 4

\* ------------------------------------------------------------- text helpers
NL == "\n"
CR == "\r"

\* str.splitlines() line boundaries that occur in the model's alphabet.
IsLineBreak(c) == c \in {NL, CR}

\* Characters str.strip() removes, within the model's alphabet.
IsSpace(c) == c \in {" ", NL, CR}

\* "".join(parts)
RECURSIVE JoinParts(_)
JoinParts(parts) ==
    IF parts = <<>> THEN <<>> ELSE Head(parts) \o JoinParts(Tail(parts))

\* tvalue.startswith(prefix)
startswith(s, prefix) ==
    /\ Len(s) >= Len(prefix)
    /\ SubSeq(s, 1, Len(prefix)) = prefix

\* s.endswith('\n')
endswith_nl(s) == Len(s) > 0 /\ s[Len(s)] = NL

\* s.strip() is non-empty: some character is not whitespace.
strip_nonempty(s) == \E i \in 1..Len(s) : ~IsSpace(s[i])

\* str.splitlines(): cut at every line boundary ("\r\n" is one boundary),
\* boundaries dropped, no empty last line after a final boundary.
RECURSIVE splitlines_from(_, _, _, _)
splitlines_from(s, i, cur, acc) ==
    IF i > Len(s)
    THEN (IF cur = <<>> THEN acc ELSE Append(acc, cur))
    ELSE IF IsLineBreak(s[i])
         THEN LET step == IF s[i] = CR /\ i < Len(s) /\ s[i + 1] = NL
                          THEN 2 ELSE 1
              IN  splitlines_from(s, i + step, <<>>, Append(acc, cur))
         ELSE splitlines_from(s, i + 1, Append(cur, s[i]), acc)

splitlines(s) == splitlines_from(s, 1, <<>>, <<>>)

\* Mutant of join_nl: the lines are joined with "\r\n".
RECURSIVE join_crlf(_)
join_crlf(lines) ==
    IF lines = <<>> THEN <<>>
    ELSE IF Len(lines) = 1 THEN Head(lines)
    ELSE Head(lines) \o <<CR, NL>> \o join_crlf(Tail(lines))

\* '\n'.join(lines)
RECURSIVE join_nl(_)
join_nl(lines) ==
    IF lines = <<>> THEN <<>>
    ELSE IF Len(lines) = 1 THEN Head(lines)
    ELSE Head(lines) \o <<NL>> \o join_nl(Tail(lines))

\* ------------------------------------------------------------ token types
Comment == <<"Comment">>
Comment_Preproc == <<"Comment", "Preproc">>

\* `ttype in parent`: parent is a prefix of ttype.
InType(ttype, parent) ==
    /\ Len(ttype) >= Len(parent)
    /\ SubSeq(ttype, 1, Len(parent)) = parent

Tok(ttype, tvalue) == [ttype |-> ttype, tvalue |-> tvalue]

\* --------------------------------------------- remove_comments_with_pygments
\* The test `first_token and ttype in Comment.Preproc and startswith("#!")`.
is_shebang(first_token, tok) ==
    /\ first_token
    /\ InType(tok.ttype, Comment_Preproc)
    /\ startswith(tok.tvalue, <<"#", "!">>)

\* The token loop: the state (new_content_parts, first_token, modified)
\* after the tokens from index i on.
RECURSIVE token_loop(_, _, _, _, _)
token_loop(toks, i, new_content_parts, first_token, modified) ==
    IF i > Len(toks)
    THEN [new_content_parts |-> new_content_parts, modified |-> modified]
    ELSE IF InType(toks[i].ttype, Comment) /\ ~is_shebang(first_token, toks[i])
         THEN token_loop(toks, i + 1, new_content_parts, first_token, TRUE)
         ELSE token_loop(toks, i + 1, Append(new_content_parts, toks[i].tvalue),
                         FALSE, modified)

\* Mutant of collapse_blank: no blank line is kept.
RECURSIVE collapse_blank_keeps_none(_, _, _, _)
collapse_blank_keeps_none(lines, i, non_empty_lines, consecutive_blank_lines) ==
    IF i > Len(lines) THEN non_empty_lines
    ELSE IF strip_nonempty(lines[i])
         THEN collapse_blank_keeps_none(lines, i + 1,
                                        Append(non_empty_lines, lines[i]), 0)
         ELSE collapse_blank_keeps_none(lines, i + 1, non_empty_lines,
                                        consecutive_blank_lines + 1)

\* The blank-line loop: at most one of consecutive blank lines is kept.
RECURSIVE collapse_blank(_, _, _, _)
collapse_blank(lines, i, non_empty_lines, consecutive_blank_lines) ==
    IF i > Len(lines) THEN non_empty_lines
    ELSE IF strip_nonempty(lines[i])
         THEN collapse_blank(lines, i + 1, Append(non_empty_lines, lines[i]), 0)
         ELSE collapse_blank(lines, i + 1,
                             IF consecutive_blank_lines + 1 <= 1
                             THEN Append(non_empty_lines, lines[i])
                             ELSE non_empty_lines,
                             consecutive_blank_lines + 1)

\* The trailing-newline step.
normalize_trailing(modified_content) ==
    IF modified_content # <<>> /\ ~endswith_nl(modified_content)
    THEN modified_content \o <<NL>>
    ELSE IF ~strip_nonempty(modified_content) THEN <<>>
    ELSE modified_content

StripResult(text, was_modified, chars_removed) ==
    [text |-> text, was_modified |-> was_modified, chars_removed |-> chars_removed]

\* Mutant of reflow: the removed count is the length of the dropped tokens,
\* taken before the lines are collapsed and the newline is settled.
reflow_counts_dropped(content, new_content_parts) ==
    LET joined == JoinParts(new_content_parts)
        kept == collapse_blank(splitlines(joined), 1, <<>>, 0)
        modified_content == normalize_trailing(join_nl(kept))
        removed_count == Len(content) - Len(joined)
    IN  StripResult(modified_content, removed_count # 0, removed_count)

\* The reflow of the surviving parts and the final tuple.
reflow(content, new_content_parts) ==
    LET joined == JoinParts(new_content_parts)
        kept == collapse_blank(splitlines(joined), 1, <<>>, 0)
        modified_content == normalize_trailing(join_nl(kept))
        removed_count == Len(content) - Len(modified_content)
    IN  StripResult(modified_content, removed_count # 0, removed_count)

\* Mutant of remove_comments_with_pygments: the `if not modified` return is
\* missing, so the reflow runs although no token was dropped.
remove_comments_always_reflow(content, lexer, toks, raises) ==
    IF lexer # "found" THEN StripResult(content, FALSE, 0)
    ELSE IF raises # {} THEN StripResult(content, FALSE, 0)
    ELSE reflow(content, token_loop(toks, 1, <<>>, TRUE, FALSE).new_content_parts)

\* The tokens the loop has seen when the iteration ends: all of them, or the
\* first k when get_tokens raises after yielding k (raises = {k}).
yielded(toks, raises) ==
    IF raises = {} THEN toks
    ELSE SubSeq(toks, 1, CHOOSE k \in raises : TRUE)

\* The ways the token iteration can go: to the end ({}), or raising after k
\* tokens ({k}).
RaisePoints(toks) == {{}} \cup {{k} : k \in 0..Len(toks)}

\* Mutant of remove_comments_with_pygments: the handler of the token loop
\* goes on with the parts collected so far instead of returning the input.
remove_comments_keeps_partial(content, lexer, toks, raises) ==
    IF lexer # "found" THEN StripResult(content, FALSE, 0)
    ELSE LET st == token_loop(yielded(toks, raises), 1, <<>>, TRUE, FALSE)
         IN  IF ~st.modified THEN StripResult(content, FALSE, 0)
             ELSE reflow(content, st.new_content_parts)

\* remove_comments_with_pygments(content, filename).  lexer is what
\* get_lexer_for_filename does for the filename ("found", "ClassNotFound",
\* "error"), toks what lexer.get_tokens(content) yields, raises where the
\* token iteration raises ({} if nowhere).
remove_comments_with_pygments(content, lexer, toks, raises) ==
    IF lexer # "found" THEN StripResult(content, FALSE, 0)
    ELSE IF raises # {} THEN StripResult(content, FALSE, 0)
    ELSE LET st == token_loop(toks, 1, <<>>, TRUE, FALSE)
         IN  IF ~st.modified THEN StripResult(content, FALSE, 0)
             ELSE reflow(content, st.new_content_parts)

\* ---------------------------------------------------------------- inputs
Text == <<"Text">>
Comment_Single == <<"Comment", "Single">>

\* The token values the stripper is exercised with.
TokenPool ==
    { Tok(Text, <<"c">>), Tok(Text, <<" ">>), Tok(Text, <<NL>>), Tok(Text, <<CR>>),
      Tok(Comment_Single, <<"#">>), Tok(Comment_Single, <<"#", "!">>),
      Tok(Comment_Preproc, <<"#", "!">>), Tok(Comment_Preproc, <<"#">>) }

RECURSIVE SeqsUpTo(_, _)
SeqsUpTo(S, n) ==
    IF n = 0 THEN {<<>>}
    ELSE LET shorter == SeqsUpTo(S, n - 1)
         IN  shorter \cup {Append(s, x) : s \in {t \in shorter : Len(t) = n - 1}, x \in S}

TokenStreams == SeqsUpTo(TokenPool, MaxTokens)

\* The text a lossless token stream covers.
RECURSIVE tvalues(_)
tvalues(toks) ==
    IF toks = <<>> THEN <<>> ELSE <<Head(toks).tvalue>> \o tvalues(Tail(toks))

SourceOf(toks) == JoinParts(tvalues(toks))

\* ------------------------------------------------------------- encodings
\* A file's bytes are a sequence of byte symbols: an ASCII byte is written as
\* its character, the others as "0xNN".  U00E9 is the character U+00E9; in
\* UTF-8 it is 0xC3 0xA9, in Latin-1 0xE9.
U00E9 == "U+00E9"
U00C3 == "U+00C3"
U00A9 == "U+00A9"
U0083 == "U+0083"
U00C2 == "U+00C2"

IsAsciiByte(b) == b \notin {"0xC3", "0xA9", "0xE9", "0x83", "0xC2"}

\* bytes.decode('utf-8'): [ok, text]; ok is false on UnicodeDecodeError.
RECURSIVE decode_utf8(_, _, _)
decode_utf8(bytes, i, acc) ==
    IF i > Len(bytes) THEN [ok |-> TRUE, text |-> acc]
    ELSE IF IsAsciiByte(bytes[i]) THEN decode_utf8(bytes, i + 1, Append(acc, bytes[i]))
    ELSE IF i < Len(bytes) /\ bytes[i] = "0xC3" /\ bytes[i + 1] = "0xA9"
         THEN decode_utf8(bytes, i + 2, Append(acc, U00E9))
    ELSE IF i < Len(bytes) /\ bytes[i] = "0xC3" /\ bytes[i + 1] = "0x83"
         THEN decode_utf8(bytes, i + 2, Append(acc, U00C3))
    ELSE IF i < Len(bytes) /\ bytes[i] = "0xC2" /\ bytes[i + 1] = "0xA9"
         THEN decode_utf8(bytes, i + 2, Append(acc, U00A9))
    ELSE [ok |-> FALSE, text |-> <<>>]

\* The character of a byte under Latin-1 (one byte, one character: total).
latin1_char(b) ==
    CASE b = "0xE9" -> U00E9
      [] b = "0xC3" -> U00C3
      [] b = "0xA9" -> U00A9
      [] b = "0x83" -> U0083
      [] b = "0xC2" -> U00C2
      [] OTHER -> b

\* bytes.decode('latin-1')
decode_latin1(bytes) == [i \in 1..Len(bytes) |-> latin1_char(bytes[i])]

\* The bytes of one character under an encoding.
encode_char(c, encoding) ==
    IF encoding = "latin-1"
    THEN CASE c = U00E9 -> <<"0xE9">>
           [] c = U00C3 -> <<"0xC3">>
           [] c = U00A9 -> <<"0xA9">>
           [] c = U0083 -> <<"0x83">>
           [] c = U00C2 -> <<"0xC2">>
           [] OTHER -> <<c>>
    ELSE CASE c = U00E9 -> <<"0xC3", "0xA9">>
           [] c = U00C3 -> <<"0xC3", "0x83">>
           [] c = U00A9 -> <<"0xC2", "0xA9">>
           [] c = U0083 -> <<"0xC2", "0x83">>
           [] c = U00C2 -> <<"0xC3", "0x82">>
           [] OTHER -> <<c>>

\* str.encode(encoding), as write_text applies it.
RECURSIVE encode(_, _)
encode(text, encoding) ==
    IF text = <<>> THEN <<>>
    ELSE encode_char(Head(text), encoding) \o encode(Tail(text), encoding)

\* The decoding of process_file: UTF-8, and Latin-1 when UTF-8 fails.
decode_with_fallback(content_bytes) ==
    LET u == decode_utf8(content_bytes, 1, <<>>)
    IN  IF u.ok THEN [original_content |-> u.text, detected_encoding |-> "utf-8"]
        ELSE [original_content |-> decode_latin1(content_bytes),
              detected_encoding |-> "latin-1"]

\* ------------------------------------------------------------------ paths
\* A path relative to target_dir: the directory parts, and the file name as
\* stem and suffix.
DEFAULT_BACKUP_DIR_NAME == ".sanitize_backups"

DEFAULT_EXCLUDE_DIRS ==
    {".git", ".svn", "node_modules", "__pycache__", "venv", ".venv",
     "build", "dist", "target", "out", DEFAULT_BACKUP_DIR_NAME}

PathOf(dirparts, stem, suffix) == [dirparts |-> dirparts, stem |-> stem, suffix |-> suffix]

\* Path.name and Path.parts
NameOf(p) == p.stem \o p.suffix
PartsOf(p) == p.dirparts \o <<NameOf(p)>>

\* The directories above a path, outermost first, as part tuples.
AncestorsOf(p) == {SubSeq(p.dirparts, 1, k) : k \in 1..Len(p.dirparts)}

\* backup_root / relative_path.with_suffix(file_path.suffix + ".bak")
backup_path_of(p) ==
    PathOf(<<DEFAULT_BACKUP_DIR_NAME>> \o p.dirparts, p.stem, p.suffix \o ".bak")

\* get_lexer_for_filename: the registry's answer, by the file name's suffix.
get_lexer_for_filename(p) ==
    IF p.suffix = ".py" THEN "found" ELSE "ClassNotFound"

\* The test of the walk: some excluded name is among the entry's parts.
is_excluded(parts, excluded_dirs) == \E i \in 1..Len(parts) : parts[i] \in excluded_dirs

\* ------------------------------------------------------------ run inputs
\* Number of files of the scanned tree (the first MaxFiles of AllFiles).
MaxFiles == 3

AllFiles ==
    << PathOf(<<>>, "a", ".py"), PathOf(<<"lib">>, "notes", ".xyz"),
       PathOf(<<"build">>, "gen", ".py"), PathOf(<<"lib">>, "a", ".py") >>

Files == {AllFiles[i] : i \in 1..(IF MaxFiles < Len(AllFiles) THEN MaxFiles ELSE Len(AllFiles))}

BackupPaths == {backup_path_of(f) : f \in Files}
FsPaths == Files \cup BackupPaths

\* Token streams of the files' contents: code with a comment line, code
\* without a comment, and a comment after a blank whose removal the reflow
\* cancels (removed count 0).
SampleStreams ==
    { <<Tok(Text, <<U00E9>>), Tok(Text, <<NL>>), Tok(Comment_Single, <<"#">>), Tok(Text, <<NL>>)>>,
      <<Tok(Text, <<"c">>), Tok(Text, <<NL>>)>>,
      <<Tok(Text, <<" ">>), Tok(Comment_Single, <<"#">>)>> }

\* lexer.get_tokens(content): the lossless stream of the content.
get_tokens(content) == CHOOSE toks \in SampleStreams : SourceOf(toks) = content

\* What a path holds when no file is there: not a byte sequence of any file.
NoFile == <<"<no file>">>

InitialBytes == {encode(SourceOf(toks), e) : toks \in SampleStreams, e \in {"utf-8", "latin-1"}}

\* What a backup left by an earlier run holds.
StaleBytes == <<"s">>

\* What a failed write or copy leaves of a file it had opened: nothing.
Truncated == <<>>

\* ------------------------------------------------------------------ state
VARIABLES
    s_tokens,    \* stripper call: the token stream of the input
    s_lexer,     \* stripper call: outcome of the lexer lookup
    s_pc,        \* stripper call: "call" before, "returned" after
    s_loop,      \* stripper call: new_content_parts and modified when the loop ended
    s_result,    \* stripper call: the returned tuple
    s_again,     \* stripper call: the tuple a second call on the result returns
    args,        \* run: the options dry_run, backup, force_unsafe
    fs,          \* run: path -> bytes of the file there, or NoFile
    fs0,         \* run: fs at the start of the run
    dirs,        \* run: the directories that exist, as part tuples
    todo,        \* run: the entries rglob has still to yield, next first
    pc,          \* run: position in main / process_file
    cur,         \* run: the locals of the process_file call in progress
    outcome,     \* run: file -> how its process_file call ended
    counts       \* run: the counters of main

stripvars == <<s_tokens, s_lexer, s_pc, s_loop, s_result, s_again>>
runvars == <<args, fs, fs0, dirs, todo, pc, cur, outcome, counts>>
vars == <<s_tokens, s_lexer, s_pc, s_loop, s_result, s_again,
          args, fs, fs0, dirs, todo, pc, cur, outcome, counts>>

NoResult == StripResult(<<>>, FALSE, 0)
NoLoop == [ran |-> FALSE, raised |-> FALSE, new_content_parts |-> <<>>,
           modified |-> FALSE]

NoPath == PathOf(<<>>, "", "")
NoLocals ==
    [file_path |-> NoPath, original_content |-> <<>>, detected_encoding |-> "",
     modified_content |-> <<>>, was_modified |-> FALSE, chars_removed |-> 0,
     backup_path |-> NoPath, ret |-> FALSE,
     backup_copied |-> FALSE,   \* history: this call's copy2 returned normally
     token_error |-> FALSE,     \* history: the token iteration raised
     dropped_before_error |-> FALSE]  \* history: ... after a comment was dropped

\* How a process_file call ended: the return reached (state), the removed
\* count it reported, whether its backup copy had succeeded, and whether the
\* token iteration had raised ("Error processing tokens" was printed).
Ended(state, chars_removed, backup_copied, token_error) ==
    [state |-> state, chars_removed |-> chars_removed,
     backup_copied |-> backup_copied, token_error |-> token_error]
Pending == Ended("Pending", 0, FALSE, FALSE)

ZeroCounts ==
    [modified_count |-> 0, processed_count |-> 0, skipped_no_lexer_count |-> 0,
     skipped_other_count |-> 0, error_count |-> 0]

\* ------------------------------------------------------- stripper alone
InitStrip ==
    /\ s_tokens \in TokenStreams
    /\ s_lexer \in {"found", "ClassNotFound", "error"}
    /\ s_pc = "call"
    /\ s_loop = NoLoop
    /\ s_result = NoResult
    /\ s_again = NoResult
    /\ args = [dry_run |-> FALSE, backup |-> FALSE, force_unsafe |-> FALSE]
    /\ fs = [p \in FsPaths |-> NoFile]
    /\ fs0 = fs
    /\ dirs = {}
    /\ todo = <<>>
    /\ pc = "idle"
    /\ cur = NoLocals
    /\ outcome = [f \in Files |-> Pending]
    /\ counts = ZeroCounts

\* One call of the stripper on the drawn input.
StripCall ==
    /\ s_pc = "call"
    /\ \E raises \in RaisePoints(s_tokens) :
         /\ s_result' = remove_comments_with_pygments(SourceOf(s_tokens), s_lexer,
                                                      s_tokens, raises)
         /\ s_loop' = IF s_lexer = "found"
                      THEN LET st == token_loop(yielded(s_tokens, raises), 1,
                                                <<>>, TRUE, FALSE)
                           IN  [ran |-> raises = {}, raised |-> raises # {},
                                new_content_parts |-> st.new_content_parts,
                                modified |-> st.modified]
                      ELSE NoLoop
    /\ s_pc' = "returned"
    /\ UNCHANGED <<s_tokens, s_lexer, s_again>>
    /\ UNCHANGED runvars

NextStrip == StripCall

SpecStrip == InitStrip /\ [][NextStrip]_vars

\* --------------------------------------------- stripper, on longer files
\* Length of the token streams that make up files of several lines.
MaxLineTokens == 6

\* Their tokens: a letter, a blank, the line breaks and a comment.
LinePool ==
    { Tok(Text, <<"c">>), Tok(Text, <<" ">>), Tok(Text, <<NL>>), Tok(Text, <<CR>>),
      Tok(Comment_Single, <<"#">>) }

\* A file of five lines: a header, two comment lines, a blank line, a code line.
FiveLines ==
    << Tok(Text, <<"c">>), Tok(Text, <<NL>>),
       Tok(Comment_Single, <<"#">>), Tok(Text, <<NL>>),
       Tok(Comment_Single, <<"#">>), Tok(Text, <<NL>>),
       Tok(Text, <<NL>>),
       Tok(Text, <<"c", "c">>), Tok(Text, <<NL>>) >>

InitLines ==
    /\ s_tokens \in SeqsUpTo(LinePool, MaxLineTokens) \cup {FiveLines}
    /\ s_lexer = "found"
    /\ s_pc = "call"
    /\ s_loop = NoLoop
    /\ s_result = NoResult
    /\ s_again = NoResult
    /\ args = [dry_run |-> FALSE, backup |-> FALSE, force_unsafe |-> FALSE]
    /\ fs = [p \in FsPaths |-> NoFile]
    /\ fs0 = fs
    /\ dirs = {}
    /\ todo = <<>>
    /\ pc = "idle"
    /\ cur = NoLocals
    /\ outcome = [f \in Files |-> Pending]
    /\ counts = ZeroCounts

SpecLines == InitLines /\ [][NextStrip]_vars

\* ----------------------------------------------- stripper, called twice
\* Length of the texts the stripper is called on twice.
MaxText == 6

Error == <<"Error">>

\* The characters of those texts: the delimiters of a markup declaration
\* "<!...>", a letter and a line break.
MarkupAlphabet == {"<", "!", ">", "c", NL}

\* The end of the run of characters other than "<" that starts at i.
RECURSIVE text_run_end(_, _)
text_run_end(text, i) ==
    IF i < Len(text) /\ text[i + 1] # "<" THEN text_run_end(text, i + 1) ELSE i

\* lexer.get_tokens(content) of a markup lexer, as a function of the content:
\* "<!" up to the next ">" is a Comment.Preproc token, any other "<" an Error
\* token of one character, a run of other characters a Text token.
RECURSIVE markup_tokens(_, _, _)
markup_tokens(content, i, acc) ==
    IF i > Len(content) THEN acc
    ELSE IF content[i] = "<"
         THEN LET closers == {j \in (i + 2)..Len(content) : content[j] = ">"}
              IN  IF i < Len(content) /\ content[i + 1] = "!" /\ closers # {}
                  THEN LET j == CHOOSE k \in closers : \A m \in closers : k <= m
                       IN  markup_tokens(content, j + 1,
                               Append(acc, Tok(Comment_Preproc, SubSeq(content, i, j))))
                  ELSE markup_tokens(content, i + 1, Append(acc, Tok(Error, <<"<">>)))
         ELSE LET j == text_run_end(content, i)
              IN  markup_tokens(content, j + 1,
                                Append(acc, Tok(Text, SubSeq(content, i, j))))

MarkupTexts == SeqsUpTo(MarkupAlphabet, MaxText)

InitAgain ==
    /\ \E content \in MarkupTexts : s_tokens = markup_tokens(content, 1, <<>>)
    /\ s_lexer = "found"
    /\ s_pc = "call"
    /\ s_loop = NoLoop
    /\ s_result = NoResult
    /\ s_again = NoResult
    /\ args = [dry_run |-> FALSE, backup |-> FALSE, force_unsafe |-> FALSE]
    /\ fs = [p \in FsPaths |-> NoFile]
    /\ fs0 = fs
    /\ dirs = {}
    /\ todo = <<>>
    /\ pc = "idle"
    /\ cur = NoLocals
    /\ outcome = [f \in Files |-> Pending]
    /\ counts = ZeroCounts

\* A second call of the stripper, on the text the first call returned, with
\* the tokens the same lexer yields for it.
StripAgain ==
    /\ s_pc = "returned"
    /\ LET toks == markup_tokens(s_result.text, 1, <<>>)
       IN  \E raises \in RaisePoints(toks) :
             s_again' = remove_comments_with_pygments(s_result.text, s_lexer,
                                                      toks, raises)
    /\ s_pc' = "again"
    /\ UNCHANGED <<s_tokens, s_lexer, s_loop, s_result>>
    /\ UNCHANGED runvars

NextAgain == StripCall \/ StripAgain

SpecAgain == InitAgain /\ [][NextAgain]_vars

\* -------------------------------------------------------------- the run
\* The entries rglob('*') yields: every file and directory below target_dir.
Entry(path, is_file) == [path |-> path, is_file |-> is_file]

DirEntry(parts) ==
    Entry(PathOf(SubSeq(parts, 1, Len(parts) - 1), parts[Len(parts)], ""), FALSE)

EntriesOf(files, directories) ==
    {Entry(p, TRUE) : p \in files} \cup {DirEntry(d) : d \in directories}

\* Some order of a set, as a sequence.
RECURSIVE SetToSeq(_)
SetToSeq(S) ==
    IF S = {} THEN <<>>
    ELSE LET x == CHOOSE y \in S : TRUE IN <<x>> \o SetToSeq(S \ {x})

\* The options, the files' bytes, and the backup tree: none, or the one an
\* earlier run over the same files left.
Init ==
    /\ args \in [dry_run : BOOLEAN, backup : BOOLEAN, force_unsafe : BOOLEAN]
    /\ fs \in [FsPaths -> InitialBytes \cup {StaleBytes, NoFile}]
    /\ \A f \in Files : fs[f] \in InitialBytes
    /\ \E left \in {StaleBytes, NoFile} : \A b \in BackupPaths : fs[b] = left
    /\ fs0 = fs
    /\ dirs = UNION {AncestorsOf(p) : p \in {q \in FsPaths : fs[q] # NoFile}}
    /\ todo = SetToSeq(EntriesOf({q \in FsPaths : fs[q] # NoFile}, dirs))
    /\ pc = "walk"
    /\ cur = NoLocals
    /\ outcome = [f \in Files |-> Pending]
    /\ counts = ZeroCounts
    /\ s_tokens = <<>>
    /\ s_lexer = "found"
    /\ s_pc = "idle"
    /\ s_loop = NoLoop
    /\ s_result = NoResult
    /\ s_again = NoResult

Bump(field) == [counts EXCEPT ![field] = @ + 1]

\* main: an entry below an excluded directory name is skipped and counted.
WalkSkipExcluded ==
    /\ pc = "walk" /\ todo # <<>>
    /\ is_excluded(PartsOf(Head(todo).path), DEFAULT_EXCLUDE_DIRS)
    /\ counts' = Bump("skipped_other_count")
    /\ todo' = Tail(todo)
    /\ UNCHANGED <<args, fs, fs0, dirs, pc, cur, outcome>>
    /\ UNCHANGED stripvars

\* main: a directory that is not excluded is passed over.
WalkDirectory ==
    /\ pc = "walk" /\ todo # <<>>
    /\ ~is_excluded(PartsOf(Head(todo).path), DEFAULT_EXCLUDE_DIRS)
    /\ ~Head(todo).is_file
    /\ todo' = Tail(todo)
    /\ UNCHANGED <<args, fs, fs0, dirs, pc, cur, outcome, counts>>
    /\ UNCHANGED stripvars

\* main: a file that is not excluded is counted and handed to process_file
\* (no --exclude-files and no --extensions are given: their defaults).
WalkDispatch ==
    /\ pc = "walk" /\ todo # <<>>
    /\ ~is_excluded(PartsOf(Head(todo).path), DEFAULT_EXCLUDE_DIRS)
    /\ Head(todo).is_file
    /\ counts' = Bump("processed_count")
    /\ cur' = [NoLocals EXCEPT !.file_path = Head(todo).path]
    /\ pc' = "read"
    /\ UNCHANGED <<args, fs, fs0, dirs, todo, outcome>>
    /\ UNCHANGED stripvars

\* main: the walk is over.
WalkDone ==
    /\ pc = "walk" /\ todo = <<>>
    /\ pc' = "done"
    /\ UNCHANGED <<args, fs, fs0, dirs, todo, cur, outcome, counts>>
    /\ UNCHANGED stripvars

\* process_file returns: the call's end is recorded, control is back in main.
Return(state, ret, backup_copied) ==
    /\ outcome' = [outcome EXCEPT ![cur.file_path] =
                       Ended(state, cur.chars_removed, backup_copied, FALSE)]
    /\ cur' = [cur EXCEPT !.ret = ret]
    /\ pc' = "returned"

\* process_file: read_bytes and the decoding succeed.
ReadOk ==
    /\ pc = "read"
    /\ LET d == decode_with_fallback(fs[cur.file_path])
       IN  cur' = [cur EXCEPT !.original_content = d.original_content,
                              !.detected_encoding = d.detected_encoding]
    /\ pc' = "strip"
    /\ UNCHANGED <<args, fs, fs0, dirs, todo, outcome, counts>>
    /\ UNCHANGED stripvars

\* process_file: read_bytes raises; the error is printed, False returned.
ReadFail ==
    /\ pc = "read"
    /\ Return("ReadFailed", FALSE, FALSE)
    /\ UNCHANGED <<args, fs, fs0, dirs, todo, counts>>
    /\ UNCHANGED stripvars

\* The call of remove_comments_with_pygments in process_file.
strip_of(locals, raises) ==
    remove_comments_with_pygments(locals.original_content,
                                  get_lexer_for_filename(locals.file_path),
                                  get_tokens(locals.original_content), raises)

\* The ways the token iteration of this call can go; without a lexer there is
\* no iteration.
RaisesOf(locals) ==
    IF get_lexer_for_filename(locals.file_path) = "found"
    THEN RaisePoints(get_tokens(locals.original_content))
    ELSE {{}}

WithRaise(locals, raises) ==
    [locals EXCEPT
        !.token_error = raises # {},
        !.dropped_before_error =
            /\ raises # {}
            /\ token_loop(yielded(get_tokens(locals.original_content), raises),
                          1, <<>>, TRUE, FALSE).modified]

WithStrip(locals, r) ==
    [locals EXCEPT !.modified_content = r.text, !.was_modified = r.was_modified,
                   !.chars_removed = r.chars_removed]

\* process_file: was_modified is false; False is returned.
StripUnmodified ==
    /\ pc = "strip"
    /\ \E raises \in RaisesOf(cur) :
         LET r == strip_of(cur, raises)
         IN  /\ ~r.was_modified
             /\ outcome' = [outcome EXCEPT ![cur.file_path] =
                    Ended("Unmodified", 0, FALSE, raises # {})]
             /\ cur' = [WithRaise(WithStrip(cur, r), raises) EXCEPT !.ret = FALSE]
    /\ pc' = "returned"
    /\ UNCHANGED <<args, fs, fs0, dirs, todo, counts>>
    /\ UNCHANGED stripvars

\* process_file: was_modified under --dry-run; the line is printed, True returned.
StripDryRun ==
    /\ pc = "strip"
    /\ args.dry_run
    /\ \E raises \in RaisesOf(cur) :
         LET r == strip_of(cur, raises)
         IN  /\ r.was_modified
             /\ outcome' = [outcome EXCEPT ![cur.file_path] =
                    Ended("DryRunReport", r.chars_removed, FALSE, raises # {})]
             /\ cur' = [WithRaise(WithStrip(cur, r), raises) EXCEPT !.ret = TRUE]
    /\ pc' = "returned"
    /\ UNCHANGED <<args, fs, fs0, dirs, todo, counts>>
    /\ UNCHANGED stripvars

\* Mutant of StripModified: the --dry-run test is missing.
StripModified_ignores_dry_run ==
    /\ pc = "strip"
    /\ \E raises \in RaisesOf(cur) :
         LET r == strip_of(cur, raises)
         IN  /\ r.was_modified
             /\ cur' = [WithRaise(WithStrip(cur, r), raises) EXCEPT
                    !.backup_path = IF args.backup THEN backup_path_of(cur.file_path)
                                    ELSE NoPath]
    /\ pc' = IF args.backup THEN "backup_mkdir" ELSE "write"
    /\ UNCHANGED <<args, fs, fs0, dirs, todo, outcome, counts>>
    /\ UNCHANGED stripvars

\* Mutant of StripModified: the `if was_modified` test is missing.
StripModified_unguarded ==
    /\ pc = "strip"
    /\ ~args.dry_run
    /\ \E raises \in RaisesOf(cur) :
         LET r == strip_of(cur, raises)
         IN  cur' = [WithRaise(WithStrip(cur, r), raises) EXCEPT
                        !.backup_path = IF args.backup THEN backup_path_of(cur.file_path)
                                        ELSE NoPath]
    /\ pc' = IF args.backup THEN "backup_mkdir" ELSE "write"
    /\ UNCHANGED <<args, fs, fs0, dirs, todo, outcome, counts>>
    /\ UNCHANGED stripvars

\* Mutant of StripModified: the backup block is skipped.
StripModified_skips_backup ==
    /\ pc = "strip"
    /\ ~args.dry_run
    /\ \E raises \in RaisesOf(cur) :
         LET r == strip_of(cur, raises)
         IN  /\ r.was_modified
             /\ cur' = [WithRaise(WithStrip(cur, r), raises) EXCEPT
                    !.backup_path = IF args.backup THEN backup_path_of(cur.file_path)
                                    ELSE NoPath]
    /\ pc' = "write"
    /\ UNCHANGED <<args, fs, fs0, dirs, todo, outcome, counts>>
    /\ UNCHANGED stripvars

\* process_file: was_modified, no dry run: on to the backup, or to the write.
StripModified ==
    /\ pc = "strip"
    /\ ~args.dry_run
    /\ \E raises \in RaisesOf(cur) :
         LET r == strip_of(cur, raises)
         IN  /\ r.was_modified
             /\ cur' = [WithRaise(WithStrip(cur, r), raises) EXCEPT
                    !.backup_path = IF args.backup THEN backup_path_of(cur.file_path)
                                    ELSE NoPath]
    /\ pc' = IF args.backup THEN "backup_mkdir" ELSE "write"
    /\ UNCHANGED <<args, fs, fs0, dirs, todo, outcome, counts>>
    /\ UNCHANGED stripvars

\* process_file: the backup's directory is made (parents too).
BackupMkdirOk ==
    /\ pc = "backup_mkdir"
    /\ dirs' = dirs \cup AncestorsOf(cur.backup_path)
    /\ pc' = "backup_copy"
    /\ UNCHANGED <<args, fs, fs0, todo, cur, outcome, counts>>
    /\ UNCHANGED stripvars

\* Mutant of BackupFailed: the write follows whatever --force-unsafe says.
BackupFailed_always_proceed == pc' = "write" /\ UNCHANGED <<cur, outcome>>

\* Mutant of BackupFailed: the file is given up whatever --force-unsafe says.
BackupFailed_always_abort == Return("BackupAborted", FALSE, FALSE)

\* The except branch of the backup: abort, or go on under --force-unsafe.
BackupFailed ==
    IF args.force_unsafe
    THEN pc' = "write" /\ UNCHANGED <<cur, outcome>>
    ELSE Return("BackupAborted", FALSE, FALSE)

\* process_file: mkdir raises, some of the missing parents made or none.
BackupMkdirFail ==
    /\ pc = "backup_mkdir"
    /\ \E k \in 0..(Len(cur.backup_path.dirparts) - 1) :
         dirs' = dirs \cup {SubSeq(cur.backup_path.dirparts, 1, j) : j \in 1..k}
    /\ BackupFailed
    /\ UNCHANGED <<args, fs, fs0, todo, counts>>
    /\ UNCHANGED stripvars

\* process_file: copy2 copies the file to the backup path.
BackupCopyOk ==
    /\ pc = "backup_copy"
    /\ fs' = [fs EXCEPT ![cur.backup_path] = fs[cur.file_path]]
    /\ cur' = [cur EXCEPT !.backup_copied = TRUE]
    /\ pc' = "write"
    /\ UNCHANGED <<args, fs0, dirs, todo, outcome, counts>>
    /\ UNCHANGED stripvars

\* process_file: copy2 raises: the backup path untouched, or opened and left
\* empty, or copied in full (the metadata copy failed).
BackupCopyFail ==
    /\ pc = "backup_copy"
    /\ \E left \in {fs[cur.backup_path], Truncated, fs[cur.file_path]} :
         fs' = [fs EXCEPT ![cur.backup_path] = left]
    /\ BackupFailed
    /\ UNCHANGED <<args, fs0, dirs, todo, counts>>
    /\ UNCHANGED stripvars

\* Mutant of WriteOk: write_text without encoding=detected_encoding.
WriteOk_utf8 ==
    /\ pc = "write"
    /\ fs' = [fs EXCEPT ![cur.file_path] = encode(cur.modified_content, "utf-8")]
    /\ Return("Modified", TRUE, cur.backup_copied)
    /\ UNCHANGED <<args, fs0, dirs, todo, counts>>
    /\ UNCHANGED stripvars

\* process_file: write_text writes the residual text in the detected
\* encoding; the line is printed, True returned.
WriteOk ==
    /\ pc = "write"
    /\ fs' = [fs EXCEPT ![cur.file_path] = encode(cur.modified_content, cur.detected_encoding)]
    /\ Return("Modified", TRUE, cur.backup_copied)
    /\ UNCHANGED <<args, fs0, dirs, todo, counts>>
    /\ UNCHANGED stripvars

\* Mutant of restore_due: the restore is never attempted.
restore_never(after) == FALSE

\* The test before the restore: --backup, a backup path, and a file there.
restore_due(after) ==
    args.backup /\ cur.backup_path # NoPath /\ after[cur.backup_path] # NoFile

\* process_file: write_text raises, the file untouched or opened and left
\* empty; the restore follows if due, else False is returned.
WriteFail ==
    /\ pc = "write"
    /\ \E left \in {fs[cur.file_path], Truncated} :
         fs' = [fs EXCEPT ![cur.file_path] = left]
    /\ IF restore_due(fs)
       THEN pc' = "restore" /\ UNCHANGED <<cur, outcome>>
       ELSE Return("WriteFailed", FALSE, cur.backup_copied)
    /\ UNCHANGED <<args, fs0, dirs, todo, counts>>
    /\ UNCHANGED stripvars

\* process_file: shutil.move puts the backup onto the original path.
RestoreOk ==
    /\ pc = "restore"
    /\ fs' = [fs EXCEPT ![cur.file_path] = fs[cur.backup_path],
                        ![cur.backup_path] = NoFile]
    /\ Return("Restored", FALSE, cur.backup_copied)
    /\ UNCHANGED <<args, fs0, dirs, todo, counts>>
    /\ UNCHANGED stripvars

\* Mutant of RestoreFail: the failure of shutil.move goes unnoticed and the
\* "Restored original file" line is printed.
RestoreFail_reports_restored ==
    /\ pc = "restore"
    /\ \E left \in {fs[cur.file_path], Truncated, fs[cur.backup_path]} :
         fs' = [fs EXCEPT ![cur.file_path] = left]
    /\ Return("Restored", FALSE, cur.backup_copied)
    /\ UNCHANGED <<args, fs0, dirs, todo, counts>>
    /\ UNCHANGED stripvars

\* process_file: shutil.move raises; the backup stays, the original path is
\* untouched, or opened and left empty, or holds the copy (the unlink failed).
RestoreFail ==
    /\ pc = "restore"
    /\ \E left \in {fs[cur.file_path], Truncated, fs[cur.backup_path]} :
         fs' = [fs EXCEPT ![cur.file_path] = left]
    /\ Return("CriticalFailure", FALSE, cur.backup_copied)
    /\ UNCHANGED <<args, fs0, dirs, todo, counts>>
    /\ UNCHANGED stripvars

\* Mutant of Dispatched: the walk is given up when process_file returns False.
Dispatched_aborts_on_failure ==
    /\ pc = "returned"
    /\ counts' = IF cur.ret THEN Bump("modified_count")
                 ELSE IF get_lexer_for_filename(cur.file_path) = "ClassNotFound"
                      THEN Bump("skipped_no_lexer_count")
                      ELSE counts
    /\ todo' = IF cur.ret THEN Tail(todo) ELSE <<>>
    /\ cur' = NoLocals
    /\ pc' = "walk"
    /\ UNCHANGED <<args, fs, fs0, dirs, outcome>>
    /\ UNCHANGED stripvars

\* main: the counters after process_file returned (it never raises, so the
\* except branch that counts an error is not reached).
Dispatched ==
    /\ pc = "returned"
    /\ counts' = IF cur.ret THEN Bump("modified_count")
                 ELSE IF get_lexer_for_filename(cur.file_path) = "ClassNotFound"
                      THEN Bump("skipped_no_lexer_count")
                      ELSE counts
    /\ todo' = Tail(todo)
    /\ cur' = NoLocals
    /\ pc' = "walk"
    /\ UNCHANGED <<args, fs, fs0, dirs, outcome>>
    /\ UNCHANGED stripvars

Next ==
    \/ WalkSkipExcluded \/ WalkDirectory \/ WalkDispatch \/ WalkDone
    \/ ReadOk \/ ReadFail
    \/ StripUnmodified \/ StripDryRun \/ StripModified
    \/ BackupMkdirOk \/ BackupMkdirFail \/ BackupCopyOk \/ BackupCopyFail
    \/ WriteOk \/ WriteFail \/ RestoreOk \/ RestoreFail
    \/ Dispatched

Spec == Init /\ [][Next]_vars

\* ------------------------------------------------------------ run claims
\* What the stripper returns for a file's bytes at the start of the run when
\* the token iteration does not raise, and those bytes' decoding.
DecodedAtStart(f) == decode_with_fallback(fs0[f])

StripAtStart(f) ==
    remove_comments_with_pygments(DecodedAtStart(f).original_content,
                                  get_lexer_for_filename(f),
                                  get_tokens(DecodedAtStart(f).original_content), {})

\* The mirrored backup path of a file: its relative path under the backup
\* root ".sanitize_backups", with ".bak" appended to the file name.
MirroredPath(f) ==
    [dirparts |-> <<".sanitize_backups">> \o f.dirparts, stem |-> f.stem,
     suffix |-> f.suffix \o ".bak"]

\* Every file that differs from its bytes at the start of the run has a
\* backup with those bytes at its mirrored path.
ChangedFilesBackedUp ==
    \A f \in Files : fs[f] # fs0[f] => fs[MirroredPath(f)] = fs0[f]

\* C1 (as stated): for every combination of options and every pattern of
\* failures, in every reachable state a file whose bytes differ from those at
\* the start of the run has a backup holding the original bytes at its
\* mirrored path under the backup root.
C1_Orig_AnyOptions == ChangedFilesBackedUp

\* C1 (amended): with --backup given and --force-unsafe not given, for every
\* pattern of failures, in every reachable state a file whose bytes differ
\* from those at the start of the run has a backup holding the original bytes
\* at its mirrored path.
C1_BackedUpWhenSafe ==
    (args.backup /\ ~args.force_unsafe) => ChangedFilesBackedUp

\* C1 witness: under --backup without --force-unsafe a failed write has left
\* the file empty and the restore is still to come.
C1_Witness ==
    /\ args.backup /\ ~args.force_unsafe
    /\ pc = "restore"
    /\ fs[cur.file_path] = Truncated
    /\ fs[cur.file_path] # fs0[cur.file_path]

WriteFailureStates == {"WriteFailed", "Restored", "CriticalFailure"}

\* C2 (as stated): with --backup, after a run in which the write of a file
\* failed, the file holds its bytes of before the run and a backup with those
\* bytes exists at the mirrored path.
C2_Orig_BackupKept ==
    pc = "done" =>
        \A f \in Files :
            (args.backup /\ outcome[f].state \in WriteFailureStates)
                => (fs[f] = fs0[f] /\ fs[MirroredPath(f)] = fs0[f])

\* C2 (amended): with --backup, when the backup copy succeeded and the write
\* failed: if the restore succeeds, the file holds its bytes of before the
\* run and no file is left at the mirrored backup path (the backup was moved
\* back); if the restore fails, the backup still holds those bytes.
C2_RestoredByMove ==
    \A f \in Files :
        (args.backup /\ outcome[f].backup_copied
                     /\ outcome[f].state \in WriteFailureStates)
            => /\ outcome[f].state \in {"Restored", "CriticalFailure"}
               /\ outcome[f].state = "Restored"
                      => (fs[f] = fs0[f] /\ fs[MirroredPath(f)] = NoFile)
               /\ outcome[f].state = "CriticalFailure"
                      => fs[MirroredPath(f)] = fs0[f]

\* C2 witness: the run is over and a file whose backup was copied and whose
\* write failed was restored.
C2_Witness ==
    /\ pc = "done"
    /\ \E f \in Files :
         /\ args.backup /\ outcome[f].backup_copied
         /\ outcome[f].state = "Restored"
         /\ fs[f] = fs0[f]

\* C3: with --backup, when the backup copy and the write both succeed the
\* file ends Modified, holds the residual text in the encoding detected at
\* the read, and its backup at the mirrored path holds the bytes of before
\* the write; a backup this run copied is gone only after a restore.
C3_ModifiedKeepsBackup ==
    \A f \in Files :
        /\ (args.backup /\ outcome[f].backup_copied /\ outcome[f].state = "Modified")
               => /\ fs[f] = encode(StripAtStart(f).text, DecodedAtStart(f).detected_encoding)
                  /\ fs[MirroredPath(f)] = fs0[f]
        /\ (outcome[f].backup_copied /\ fs[MirroredPath(f)] = NoFile)
               => outcome[f].state = "Restored"
        /\ (outcome[f].backup_copied /\ outcome[f].state \notin WriteFailureStates)
               => outcome[f].state = "Modified"

\* C3 witness: a file read as Latin-1 was backed up and rewritten.
C3_Witness ==
    \E f \in Files :
        /\ args.backup /\ outcome[f].backup_copied
        /\ outcome[f].state = "Modified"
        /\ DecodedAtStart(f).detected_encoding = "latin-1"
        /\ fs[f] # fs0[f]

\* The directories there were at the start of the run.
DirsAtStart == UNION {AncestorsOf(p) : p \in {q \in FsPaths : fs0[q] # NoFile}}

\* C4: under --dry-run nothing is written, copied, moved or created: every
\* path holds what it held at the start and no directory is added; a file
\* whose strip result has was_modified is reported with that result's removed
\* count, process_file returns True for it, and it is counted as modified.
C4_DryRunTouchesNothing ==
    args.dry_run =>
        /\ fs = fs0
        /\ dirs = DirsAtStart
        /\ \A f \in Files :
               /\ outcome[f].state \in {"Pending", "ReadFailed", "Unmodified", "DryRunReport"}
               /\ outcome[f].state = "DryRunReport"
                      => /\ StripAtStart(f).was_modified
                         /\ outcome[f].chars_removed = StripAtStart(f).chars_removed
        /\ (pc = "returned" /\ cur.was_modified)
               => /\ outcome[cur.file_path].state = "DryRunReport"
                  /\ outcome[cur.file_path].chars_removed = cur.chars_removed
                  /\ cur.ret
        /\ pc = "done"
               => counts.modified_count =
                      Cardinality({f \in Files : outcome[f].state = "DryRunReport"})

\* C4 witness: a dry run is over and reported a file with a comment.
C4_Witness ==
    /\ args.dry_run
    /\ pc = "done"
    /\ \E f \in Files : outcome[f].state = "DryRunReport" /\ outcome[f].chars_removed = 2
    /\ counts.modified_count = 1

\* C8: when the strip result has was_modified false, process_file makes no
\* backup, no write and no restore: it ends Unmodified with the file's bytes
\* and the backup path as they were at the start of the run.
C8_UnmodifiedUntouched ==
    /\ pc \in {"backup_mkdir", "backup_copy", "write", "restore"} => cur.was_modified
    /\ (pc = "returned" /\ ~cur.was_modified
                        /\ outcome[cur.file_path].state # "ReadFailed")
           => /\ outcome[cur.file_path].state = "Unmodified"
              /\ ~cur.ret
    /\ \A f \in Files :
           outcome[f].state = "Unmodified"
               => (fs[f] = fs0[f] /\ fs[MirroredPath(f)] = fs0[MirroredPath(f)])

\* C8 witness: a file whose comment removal the reflow cancels (removed
\* count 0) ended Unmodified although the text computed for it differs.
C8_Witness ==
    /\ pc = "returned"
    /\ outcome[cur.file_path].state = "Unmodified"
    /\ get_lexer_for_filename(cur.file_path) = "found"
    /\ ~outcome[cur.file_path].token_error
    /\ cur.modified_content # cur.original_content

\* C9, the states: a file given up after a failed backup holds its bytes of
\* the start and was given up without --force-unsafe; the write is reached
\* without a copied backup only under --force-unsafe.
C9_States ==
    /\ \A f \in Files :
           outcome[f].state = "BackupAborted"
               => (fs[f] = fs0[f] /\ args.backup /\ ~args.force_unsafe)
    /\ (pc \in {"write", "restore"} /\ args.backup /\ ~cur.backup_copied) => args.force_unsafe

\* C9, the step in which the backup fails.
C9_Step ==
    (pc \in {"backup_mkdir", "backup_copy"} /\ pc' # "backup_copy" /\ ~cur'.backup_copied)
        => IF args.force_unsafe
           THEN pc' = "write" /\ fs'[cur.file_path] = fs0[cur.file_path]
           ELSE /\ pc' = "returned"
                /\ outcome'[cur.file_path].state = "BackupAborted"
                /\ ~cur'.ret
                /\ fs'[cur.file_path] = fs0[cur.file_path]

\* C9: with --backup, when making the backup fails: without --force-unsafe
\* the write is never reached, the file is left as it was and process_file
\* fails; with --force-unsafe process_file goes on to the write with no
\* backup copied.
C9_BackupFailure == [](C9_States) /\ [][C9_Step]_vars

\* C9 witness: a failed copy left an empty backup file, and the file was
\* given up.
C9_Witness ==
    \E f \in Files :
        /\ outcome[f].state = "BackupAborted"
        /\ fs[MirroredPath(f)] = Truncated

\* The files process_file was called for.
Dispatched_files == {f \in Files : outcome[f].state # "Pending"}

\* C10 (as stated): a file whose read failed and a file whose tokenization
\* failed are unchanged on disk and each adds one to error_count; a file with
\* no lexer adds one to skipped_no_lexer_count and nothing to error_count.
C10_Orig_ErrorsCounted ==
    pc = "done" =>
        LET failed == {f \in Files : outcome[f].state = "ReadFailed" \/ outcome[f].token_error}
            no_lexer == {f \in Dispatched_files : get_lexer_for_filename(f) = "ClassNotFound"}
        IN  /\ \A f \in failed : fs[f] = fs0[f]
            /\ counts.error_count = Cardinality(failed)
            /\ \A f \in no_lexer \ failed : counts.skipped_no_lexer_count >= 1

\* C11 (as stated): what process_file hands back to main for a file whose
\* write and restore both failed differs from what it hands back for a write
\* failure that was restored or had no backup (False returned, no counter
\* changed): the returned value is not False, or a counter changes.
C11_Orig_DistinctResult ==
    [][(pc = "returned" /\ outcome[cur.file_path].state = "CriticalFailure")
          => (cur.ret # FALSE \/ counts' # counts)]_vars

C11_States ==
    /\ \A f \in Files :
          /\ outcome[f].state = "CriticalFailure"
                 => (args.backup /\ fs[MirroredPath(f)] # NoFile)
          /\ outcome[f].state = "Restored"
                 => (args.backup /\ fs[MirroredPath(f)] = NoFile)
          /\ outcome[f].state = "WriteFailed"
                 => ~(args.backup /\ fs[MirroredPath(f)] # NoFile)
    /\ (pc = "returned" /\ outcome[cur.file_path].state \in WriteFailureStates)
          => cur.ret = FALSE

C11_Step ==
    /\ pc = "restore"
          => outcome'[cur.file_path].state =
                 IF fs'[MirroredPath(cur.file_path)] = NoFile THEN "Restored"
                 ELSE "CriticalFailure"
    /\ (pc = "returned" /\ outcome[cur.file_path].state \in WriteFailureStates)
          => counts' = counts

\* C11 (amended): a file whose write failed ends with the "CRITICAL" message
\* exactly when a backup file was there to restore from and moving it back
\* failed (the backup file stays), with the "Restored" message when the move
\* succeeded (the backup file is gone), and with the plain write error when
\* there was no backup file.  The three differ in the message only: each
\* returns False to main, and main changes no counter for any of them.
C11_CriticalOnlyInMessage == [](C11_States) /\ [][C11_Step]_vars

C11_Witness ==
    /\ pc = "returned"
    /\ cur.file_path \in Files
    /\ outcome[cur.file_path].state = "CriticalFailure"
    /\ cur.ret = FALSE
    /\ fs[cur.file_path] # fs0[cur.file_path]

\* The regular files of the tree that no exclusion covers.
Eligible ==
    {f \in Files : \A i \in 1..Len(PartsOf(f)) : PartsOf(f)[i] \notin DEFAULT_EXCLUDE_DIRS}

TerminalStates ==
    {"ReadFailed", "Unmodified", "DryRunReport", "BackupAborted", "Modified",
     "WriteFailed", "Restored", "CriticalFailure"}

\* The positions of a run, last first; "done" is none of them.
Positions ==
    <<"returned", "restore", "write", "backup_copy", "backup_mkdir", "strip",
      "read", "walk">>

PositionRank(p) ==
    IF p = "done" THEN 0 ELSE CHOOSE i \in 1..Len(Positions) : Positions[i] = p

\* A bound on the steps the run has left: it falls with every step.
StepsLeft == (Len(Positions) + 1) * Len(todo) + PositionRank(pc)

\* Until the run is over a step can be taken.  After the strip call the
\* steps branch on was_modified and dry_run, which leaves no case out.
CanStep ==
    /\ pc \notin {"done", "strip"} => ENABLED Next
    /\ pc = "strip" => \E raises \in RaisesOf(cur) :
                           strip_of(cur, raises).was_modified \in BOOLEAN

C12_States ==
    /\ CanStep
    /\ pc = "done" =>
          /\ todo = <<>>
          /\ counts.processed_count = Cardinality(Eligible)
          /\ \A f \in Eligible : outcome[f].state \in TerminalStates
          /\ \A f \in Files \ Eligible : outcome[f] = Pending /\ fs[f] = fs0[f]

C12_Step ==
    /\ StepsLeft' < StepsLeft
    /\ (pc = "walk" /\ pc' = "read")
          => /\ cur'.file_path \in Eligible
             /\ outcome[cur'.file_path] = Pending
             /\ \A i \in 2..Len(todo) : todo[i].path # cur'.file_path
    /\ \A f \in Files :
          f # cur.file_path
              => /\ outcome'[f] = outcome[f]
                 /\ fs'[f] = fs[f]
                 /\ fs'[MirroredPath(f)] = fs[MirroredPath(f)]

\* C12: whatever the files hold and whichever reads, token iterations, backup
\* steps, writes and restores fail, the run ends: until it is over a step is
\* always possible and every step lowers a bound on the steps left.  When it
\* is over every file that is not excluded was handed to process_file exactly
\* once and has a terminal outcome, and no step of one file's call changes
\* another file's outcome, bytes or backup: what a file ends with does not
\* depend on the failures of the others.
C12_RunEndsFilesIsolated == [](C12_States) /\ [][C12_Step]_vars

C12_Witness ==
    /\ pc = "done"
    /\ \E f, g \in Eligible :
          /\ outcome[f].state \in {"CriticalFailure", "WriteFailed", "ReadFailed"}
          /\ outcome[g].state = "Unmodified"
          /\ fs[g] = fs0[g]

\* The positions inside a process_file call, before its return.
CallPositions == {"read", "strip", "backup_mkdir", "backup_copy", "write", "restore"}

\* The step from one position to the next that the order of the claim allows.
StepOrder ==
    { <<"walk", "read">>, <<"walk", "done">>,
      <<"read", "strip">>, <<"read", "returned">>,
      <<"strip", "returned">>, <<"strip", "backup_mkdir">>, <<"strip", "write">>,
      <<"backup_mkdir", "backup_copy">>, <<"backup_mkdir", "write">>,
      <<"backup_mkdir", "returned">>,
      <<"backup_copy", "write">>, <<"backup_copy", "returned">>,
      <<"write", "returned">>, <<"write", "restore">>,
      <<"restore", "returned">>, <<"returned", "walk">> }

C13_States ==
    /\ pc \in CallPositions => outcome[cur.file_path] = Pending
    /\ pc = "returned" => outcome[cur.file_path].state \in TerminalStates
    /\ pc \in {"backup_mkdir", "backup_copy"} => args.backup
    /\ pc \in {"backup_mkdir", "backup_copy", "write", "restore"} => ~args.dry_run

C13_Step ==
    /\ pc' # pc => <<pc, pc'>> \in StepOrder
    /\ pc \in CallPositions
          => /\ pc' # pc
             /\ cur'.file_path = cur.file_path
    /\ (pc = "strip" /\ pc' = "returned")
          => outcome'[cur.file_path].state \in {"Unmodified", "DryRunReport"}
    /\ (pc' = "write" /\ args.backup) => pc \in {"backup_mkdir", "backup_copy"}
    /\ (pc' = "write" /\ pc = "backup_mkdir") => args.force_unsafe
    /\ pc' = "restore"
          => /\ args.backup
             /\ fs'[cur.file_path] \in {fs[cur.file_path], Truncated}
    /\ \A f \in Files :
          /\ fs'[f] # fs[f] => (f = cur.file_path /\ pc \in {"write", "restore"})
          /\ outcome[f].state \in TerminalStates
                => (outcome'[f] = outcome[f] /\ fs'[f] = fs[f])

\* C13: inside one process_file call the steps come in the order read, strip
\* (ending the call for an unmodified file or a dry run), backup (mkdir, then
\* copy2; only with --backup), write, restore (only out of a failed write),
\* and each step leaves its position for a later one, so none runs twice.
\* With --backup the write is entered only out of the backup steps, and the
\* file's bytes change in the write and restore steps only.  Once a file has
\* a terminal outcome neither the outcome nor the file's bytes change again.
C13_StepOrder == [](C13_States) /\ [][C13_Step]_vars

C13_Witness ==
    /\ pc = "restore"
    /\ args.backup
    /\ cur.backup_copied
    /\ fs[cur.backup_path] = fs0[cur.file_path]
    /\ fs[cur.file_path] = Truncated

\* C15: when the token iteration raises, at its start or after any number of
\* tokens (comments among them already dropped), the strip call returns the
\* text it was given, was_modified = False and a removed count of 0;
\* process_file returns False at once, and the file and its backup path hold
\* what they held before.
C15_TokenErrorDiscardsAll ==
    /\ cur.token_error
          => /\ pc = "returned"
             /\ cur.modified_content = cur.original_content
             /\ ~cur.was_modified
             /\ cur.chars_removed = 0
             /\ ~cur.ret
             /\ outcome[cur.file_path].token_error
    /\ \A f \in Files :
          outcome[f].token_error
              => /\ outcome[f].state = "Unmodified"
                 /\ fs[f] = fs0[f]
                 /\ fs[MirroredPath(f)] = fs0[MirroredPath(f)]

C15_Witness ==
    /\ pc = "returned"
    /\ cur.token_error
    /\ cur.dropped_before_error
    /\ ~args.dry_run
    /\ fs[cur.file_path] = fs0[cur.file_path]

\* C19: the restore is entered only when this call's backup copy had
\* succeeded, and a file whose write failed and that was restored holds the
\* bytes it held before the run, also under --force-unsafe after a failed
\* backup that left a partial or an older file at the backup path.
C19_RestoreOnlyOwnBackup ==
    /\ pc = "restore" => cur.backup_copied
    /\ \A f \in Files : outcome[f].state = "Restored" => fs[f] = fs0[f]

\* ------------------------------------------------------- stripper claims
IsCommentTok(tok) == InType(tok.ttype, Comment)

\* A token at position i that is preprocessor-style and begins with "#!".
IsShebangTok(tok) ==
    InType(tok.ttype, Comment_Preproc) /\ startswith(tok.tvalue, <<"#", "!">>)

\* The texts of the tokens of toks from position i on that the claim keeps:
\* every non-comment token, and a comment token only at position 1 when it is
\* a preprocessor-style "#!" token.
RECURSIVE KeptByPosition(_, _)
KeptByPosition(toks, i) ==
    IF i > Len(toks) THEN <<>>
    ELSE IF ~IsCommentTok(toks[i]) \/ (i = 1 /\ IsShebangTok(toks[i]))
         THEN <<toks[i].tvalue>> \o KeptByPosition(toks, i + 1)
         ELSE KeptByPosition(toks, i + 1)

\* C5: a comment-classified token survives the token loop if and only if it
\* is the very first token of the stream, preprocessor-style and begins with
\* "#!"; all other comment tokens are dropped and every non-comment token is
\* kept, in order.
C5_KeptIffFirstShebang ==
    (s_pc = "returned" /\ s_loop.ran)
        => s_loop.new_content_parts = KeptByPosition(s_tokens, 1)

\* The stream holds no comment token except possibly a leading shebang.
NoCommentButLeadingShebang(toks) ==
    \A i \in 1..Len(toks) :
        IsCommentTok(toks[i]) => (i = 1 /\ IsShebangTok(toks[i]))

\* C6: for a stream with no comment token (or only a preserved leading
\* shebang) the stripper returns the original text itself, was_modified false
\* and chars_removed 0: no blank line is collapsed, no newline appended.
C6_NoCommentUnchanged ==
    (s_pc = "returned" /\ NoCommentButLeadingShebang(s_tokens))
        => s_result = StripResult(SourceOf(s_tokens), FALSE, 0)

\* C6 witness: a returned call on a leading shebang followed by two blank
\* lines and no final newline, which a reflow would have changed.
C6_Witness ==
    /\ s_pc = "returned"
    /\ s_loop.ran
    /\ s_tokens = <<Tok(Comment_Preproc, <<"#", "!">>), Tok(Text, <<NL>>),
                    Tok(Text, <<NL>>), Tok(Text, <<"c">>)>>
    /\ s_result.text = <<"#", "!", NL, NL, "c">>

\* A line is blank when it holds only whitespace.
IsBlankLine(line) == ~strip_nonempty(line)

\* C7: when at least one comment token was dropped, the residual text has no
\* two adjacent blank lines, does not end in two newlines, is empty or ends
\* with a newline, and is empty whenever the collapsed text is all whitespace.
C7_ReflowNormalized ==
    (s_pc = "returned" /\ s_loop.ran /\ s_loop.modified) =>
        LET res == s_result.text
            lines == splitlines(res)
            collapsed == join_nl(collapse_blank(
                             splitlines(JoinParts(s_loop.new_content_parts)),
                             1, <<>>, 0))
        IN  /\ \A i \in 1..(Len(lines) - 1) :
                   ~(IsBlankLine(lines[i]) /\ IsBlankLine(lines[i + 1]))
            /\ ~(Len(res) >= 2 /\ res[Len(res)] = NL /\ res[Len(res) - 1] = NL)
            /\ (res = <<>> \/ endswith_nl(res))
            /\ (~strip_nonempty(collapsed) => res = <<>>)

\* C14: when a call of the stripper returns was_modified = True, a second
\* call on the returned text, tokenized by the same lexer, returns
\* was_modified = False and that text unchanged.
C14_SecondCallChangesNothing ==
    (s_pc = "again" /\ s_result.was_modified)
        => (~s_again.was_modified /\ s_again.text = s_result.text)

\* C16: whichever return of the stripper is taken (no lexer, lexer error,
\* token error, no comment dropped, or the reflowed text), the removed count
\* is the length of the input minus the length of the returned text, and
\* was_modified tells whether that count is other than 0.
C16_CountIsLengthDifference ==
    s_pc = "returned"
        => /\ s_result.chars_removed = Len(SourceOf(s_tokens)) - Len(s_result.text)
           /\ s_result.was_modified = (s_result.chars_removed # 0)

C16_Witness ==
    /\ s_pc = "returned"
    /\ s_loop.ran /\ s_loop.modified
    /\ s_result.was_modified
    /\ s_result.chars_removed = 2
    /\ Len(s_result.text) = Len(SourceOf(s_tokens)) - 2
    /\ s_result.text # JoinParts(s_loop.new_content_parts)

NonBlankLines(lines) == SelectSeq(lines, LAMBDA line : ~IsBlankLine(line))

\* The index in lines of its k-th line that is not blank.
NonBlankAt(lines, k) ==
    CHOOSE i \in 1..Len(lines) :
        /\ ~IsBlankLine(lines[i])
        /\ Cardinality({j \in 1..i : ~IsBlankLine(lines[j])}) = k

\* The number of blank lines between the k-th and the next non-blank line.
BlankRun(lines, k) == NonBlankAt(lines, k + 1) - NonBlankAt(lines, k) - 1

\* C17: when comments were dropped, the lines of the returned text that are
\* not blank are those of the joined surviving tokens, in the same order, and
\* between two of them that follow each other there is exactly one blank line
\* where the joined text had a run of one or more, and none where it had
\* none.  The five-line file (header, two comment lines, a blank line, a code
\* line) comes back as three lines: header, one blank line, code line, with
\* one newline at the end.
C17_BlankRunsCollapsed ==
    /\ (s_pc = "returned" /\ s_loop.ran /\ s_loop.modified)
          => LET joined == splitlines(JoinParts(s_loop.new_content_parts))
                 result == splitlines(s_result.text)
             IN  /\ NonBlankLines(result) = NonBlankLines(joined)
                 /\ \A k \in 1..(Len(NonBlankLines(joined)) - 1) :
                       BlankRun(result, k) = IF BlankRun(joined, k) >= 1 THEN 1 ELSE 0
    /\ (s_pc = "returned" /\ s_loop.ran /\ s_tokens = FiveLines)
          => s_result.text = <<"c", NL, NL, "c", "c", NL>>

C17_Witness ==
    /\ s_pc = "returned"
    /\ s_tokens = FiveLines
    /\ BlankRun(splitlines(JoinParts(s_loop.new_content_parts)), 1) = 3
    /\ splitlines(s_result.text) = << <<"c">>, <<>>, <<"c", "c">> >>
    /\ s_result.chars_removed = 4

\* C18: whenever the stripper returns was_modified = False, the text it
\* returns is the text it was given.
C18_UnmodifiedReturnsInput ==
    (s_pc = "returned" /\ ~s_result.was_modified)
        => s_result.text = SourceOf(s_tokens)

\* C20: for a token stream that makes up its input, with no empty token, the
\* removed count the stripper returns is never negative: the newline that the
\* reflow may add is paid for by a dropped comment.
C20_CountNeverNegative ==
    s_pc = "returned" => s_result.chars_removed >= 0

C20_Witness ==
    /\ s_pc = "returned"
    /\ s_loop.ran /\ s_loop.modified
    /\ Len(s_tokens) = MaxLineTokens
    /\ s_result.chars_removed = 0
    /\ Len(s_result.text) > Len(JoinParts(s_loop.new_content_parts))

====
